---- MODULE Spec2Model ----
(***************************************************************************)
(* Model of the Subsonic/Navidrome client of the Picard plugin:            *)
(* NavidromeCache, the module-level _global_cache, SubsonicClient          *)
(* (__init__, _auth_params, _request, the API calls, clear_cache), the     *)
(* generator iter_all_songs_stream and the playlist handlers of            *)
(* NavidromeBrowserDialog.                                                 *)
(*                                                                         *)
(* A Python string is a sequence of tokens (each token a short TLA+        *)
(* string), so that f-string formatting is concatenation (\o) and          *)
(* endswith("/") looks at the last token.                                  *)
(***************************************************************************)
EXTENDS Integers, Sequences, FiniteSets, TLC

VARIABLES
    global_cache,   \* _global_cache: [exists |-> FALSE] is None, else the NavidromeCache and its _cache dict
    clients,        \* the SubsonicClient instances constructed so far
    srv,            \* the server side: host -> index of the catalog it serves now
    changes,        \* how often the server's data changed
    calls,          \* how many direct client calls were made
    last,           \* record of the most recent direct call
    seen,           \* request -> value first returned for it to a cache-enabled client since the last clear
    cleared,        \* requests whose cached value was dropped by the most recent clear
    gen,            \* the generator of iter_all_songs_stream: position, locals, what it yielded and reported
    store,          \* the server side: the playlists it holds and the number of the next one it creates
    ui              \* the playlist browser dialog: _playlists, the current row, tracks_list, what the last handler did

vars == <<global_cache, clients, srv, changes, calls, last, seen, cleared, gen, store, ui>>

----------------------------------------------------------------------------
(* Bounds *)

MaxClients == 2
MaxCalls == 2
MaxChanges == 1
MaxPageSize == 4
SmallMaxPages == 2

----------------------------------------------------------------------------
(* Strings and program constants *)

api_version == <<"1.16.1">>
app_name == <<"PicardNavidrome">>
default_list_type == <<"alphabeticalByName">>
DefaultPageSize == 500
DefaultMaxPages == 10000

Str(n) == <<ToString(n)>>

\* faulty variant: the trailing slash is kept
StripSlashKept(base_url) == base_url

\* base_url.endswith("/") -> base_url[:-1]
StripSlash(base_url) ==
    IF Len(base_url) > 0 /\ base_url[Len(base_url)] = "/"
    THEN SubSeq(base_url, 1, Len(base_url) - 1)
    ELSE base_url

Min(a, b) == IF a < b THEN a ELSE b

----------------------------------------------------------------------------
(* The server side: catalogs of albums, each with the songCount the album  *)
(* list reports and the songs getAlbum returns.                            *)

Song(id) == [id |-> id]
\* the ids of a sequence of songs
IdsOf(songs) == [i \in 1..Len(songs) |-> songs[i].id]
IntCount(n) == [kind |-> "int", n |-> n]
AbsentCount == [kind |-> "absent", n |-> 0]
Alb(id, sc, songs) == [id |-> id, sc |-> sc, songs |-> songs]

Cat1 == << Alb(<<"a1">>, IntCount(3), <<Song("s1"), Song("s2"), Song("s3")>>),
           Alb(<<"a2">>, IntCount(5), <<Song("s4"), Song("s5"), Song("s6"), Song("s7"), Song("s8")>>),
           Alb(<<"a3">>, IntCount(0), <<>>),
           Alb(<<"a4">>, IntCount(2), <<Song("s9"), Song("s10")>>) >>
Cat2 == << >>
Cat3 == << Alb(<<"a1">>, IntCount(1), <<Song("t1"), Song("t2")>>),
           Alb(<<"a2">>, AbsentCount, <<Song("t3")>>) >>
Cat4 == << Alb(<<>>, IntCount(2), <<Song("u1"), Song("u2")>>),
           Alb(<<"a2">>, IntCount(1), <<Song("u3")>>) >>

Catalogs == <<Cat1, Cat2, Cat3, Cat4>>
CatalogIds == 1..Len(Catalogs)

Hosts == { <<"nav">> }
\* the server a base URL leads to, and the catalog it serves now
HostOf(base_url) == << base_url[1] >>
CatalogOf(base_url) == Catalogs[srv[HostOf(base_url)]]

\* what the album list shows of an album
AlbumInfo(a) == [id |-> a.id, sc |-> a.sc]

Reverse(s) == [i \in 1..Len(s) |-> s[Len(s) + 1 - i]]

\* the server's page of albums for type/size/offset
ServerPage(host, list_type, size, offset) ==
    LET cat == CatalogOf(host)
        ord == IF list_type = default_list_type THEN cat ELSE Reverse(cat)
        hi == Min(offset + size, Len(ord))
    IN  [i \in 1..(IF hi > offset THEN hi - offset ELSE 0) |-> AlbumInfo(ord[offset + i])]

HasAlbum(host, album_id) == \E i \in 1..Len(CatalogOf(host)) : CatalogOf(host)[i].id = album_id
ServerSongs(host, album_id) ==
    LET cat == CatalogOf(host)
        i == CHOOSE j \in 1..Len(cat) : cat[j].id = album_id
    IN  cat[i].songs

\* The JSON shapes a list-valued field can arrive in
Shapes == {"nocontainer", "absent", "object", "list"}
ShapeFits(shape, s) ==
    \/ shape = "list"
    \/ shape \in {"nocontainer", "absent"} /\ Len(s) = 0
    \/ shape = "object" /\ Len(s) = 1
Wire(shape, s) ==
    CASE shape = "nocontainer" -> [container |-> FALSE, field |-> "absent", val |-> <<>>]
      [] shape = "absent"      -> [container |-> TRUE, field |-> "absent", val |-> <<>>]
      [] shape = "object"      -> [container |-> TRUE, field |-> "dict", val |-> s[1]]
      [] OTHER                 -> [container |-> TRUE, field |-> "list", val |-> s]

\* The playlists of the server: pls holds them in creation order, each with
\* the id, name, owner and visibility the server shows and its entries (songs)
Playlist(id, name, owner, public, entries) ==
    [id |-> id, name |-> name, owner |-> owner, public |-> public, entries |-> entries]
NoStore == [next |-> 1, pls |-> << >>]

\* What one HTTP exchange can come to
Outcomes == {"ok", "transport", "notjson", "noenvelope", "failed"}
Salts == {"salt1"}
Envs == [salt : Salts, outcome : Outcomes, shape : Shapes]


----------------------------------------------------------------------------
(* NavidromeCache and the module-level _global_cache *)

None == << >>
Some(v) == << v >>

EmptyDict == << >>
NoGlobalCache == [exists |-> FALSE, dict |-> EmptyDict]

\* NavidromeCache.get: the stored data, or None
CacheGet(key) ==
    IF key \in DOMAIN global_cache.dict THEN Some(global_cache.dict[key]) ELSE None

\* faulty variant: "if data: self._cache[key] = data" -- an empty result is not stored
CacheSetUnlessEmpty(key, data) ==
    [exists |-> global_cache.exists,
     dict |-> [k \in (DOMAIN global_cache.dict) \cup (IF data = << >> THEN {} ELSE {key}) |->
                  IF k = key /\ data # << >> THEN data ELSE global_cache.dict[k]]]

\* NavidromeCache.set on the global instance
CacheSet(key, data) ==
    [exists |-> global_cache.exists,
     dict |-> [k \in (DOMAIN global_cache.dict) \cup {key} |->
                  IF k = key THEN data ELSE global_cache.dict[k]]]

\* faulty variant: clear() that drops nothing
CacheClearNothing == global_cache

\* NavidromeCache.clear
CacheClear == [exists |-> global_cache.exists, dict |-> EmptyDict]

\* _get_global_cache(enable_cache): creates the global instance on first use
get_global_cache(enable_cache) ==
    IF ~enable_cache THEN global_cache
    ELSE [exists |-> TRUE, dict |-> global_cache.dict]

\* _clear_global_cache: clears the global instance if there is one
clear_global_cache == IF global_cache.exists THEN CacheClear ELSE global_cache

----------------------------------------------------------------------------
(* SubsonicClient *)

\* SubsonicClient.__init__: the instance's fields
NewClient(base_url, username, password, enable_cache) ==
    [base_url |-> StripSlash(base_url), username |-> username,
     password |-> password, enable_cache |-> enable_cache]

\* faulty variant: every instance uses the global cache
SelfCacheAlways(c) == TRUE

\* "if self.cache:" -- self.cache is the global instance, or None when caching is off
SelfCache(c) == c.enable_cache

Md5(s) == <<"md5(">> \o s \o <<")">>

\* _auth_params
auth_params(c, salt) ==
    << <<"u", c.username>>, <<"t", Md5(c.password \o <<salt>>)>>, <<"s", <<salt>>>>,
       <<"v", api_version>>, <<"c", app_name>>, <<"f", <<"json">>>> >>

\* what the server sends back for one exchange: env is the environment's choice,
\* body the payload of a successful answer
Reply(env, body) ==
    [transport_error |-> env.outcome = "transport",
     is_json |-> env.outcome # "notjson",
     has_envelope |-> env.outcome \notin {"notjson", "noenvelope"},
     status |-> IF env.outcome = "ok" THEN "ok" ELSE "failed",
     error |-> [code |-> <<"70">>, message |-> <<"not found">>],
     body |-> body]

\* faulty variant: the song ids are sent as a set, each once, newest first
SongIdPairsDistinct(song_ids) ==
    LET firsts == SelectSeq([i \in 1..Len(song_ids) |-> <<i, song_ids[i]>>],
                            LAMBDA e : \A j \in 1..(e[1] - 1) : song_ids[j] # e[2])
    IN  [i \in 1..Len(firsts) |-> <<"songId", firsts[Len(firsts) + 1 - i][2]>>]

\* "for sid in song_ids: param_pairs.append(("songId", sid))"
SongIdPairs(song_ids) == [i \in 1..Len(song_ids) |-> <<"songId", song_ids[i]>>]

\* faulty variant: the error of the envelope is dropped
SubsonicErrorBare(error) == <<"Subsonic error">>

\* f"Subsonic error {code}: {msg}"
SubsonicError(error) == <<"Subsonic error ">> \o error.code \o <<": ">> \o error.message

\* _request: one authenticated call; raises ValueError or returns the envelope
request(c, endpoint, params, method, song_ids, env, reply) ==
    LET ep == IF Len(endpoint) = 0 \/ endpoint[1] # "/" THEN <<"/">> \o endpoint ELSE endpoint
        all_params == auth_params(c, env.salt) \o params
        pairs == IF method = "GET" THEN all_params
                 ELSE all_params \o SongIdPairs(song_ids)
        req == [method |-> method, url |-> c.base_url \o ep, pairs |-> pairs]
        Raise(msg) == [raised |-> TRUE, err |-> msg, resp |-> reply.body, net |-> <<req>>, reply |-> reply]
    IN  IF reply.transport_error THEN Raise(<<"HTTP error calling ">> \o ep)
        ELSE IF ~reply.is_json THEN Raise(<<"Invalid JSON from ">> \o ep)
        ELSE IF ~reply.has_envelope THEN Raise(<<"Unexpected response: missing 'subsonic-response'">>)
        ELSE IF reply.status # "ok" THEN Raise(SubsonicError(reply.error))
        ELSE [raised |-> FALSE, err |-> << >>, resp |-> reply.body, net |-> <<req>>, reply |-> reply]

\* faulty variant: a failed GET is sent once more
GetAgain(c, endpoint, params, env, reply) ==
    LET r == request(c, endpoint, params, "GET", << >>, env, reply)
    IN  IF r.raised THEN [r EXCEPT !.net = r.net \o r.net] ELSE r

\* _get
Get(c, endpoint, params, env, reply) == request(c, endpoint, params, "GET", << >>, env, reply)

\* _post
Post(c, endpoint, params, song_ids, env, reply) ==
    request(c, endpoint, params, "POST", song_ids, env, reply)

\* faulty variant: only a list counts, a bare object is dropped
NormalizeListsOnly(w) ==
    IF w.container /\ w.field = "list" THEN w.val ELSE << >>

\* resp.get(container, {}).get(field, []) followed by the isinstance(.., dict) wrap
Normalize(w) ==
    IF ~w.container \/ w.field = "absent" THEN << >>
    ELSE IF w.field = "dict" THEN << w.val >>
    ELSE w.val

\* faulty variant: a key that is per user
AlbumList2KeyPerUser(c, list_type, size, offset) ==
    c.base_url \o c.username \o <<"_album_", "list2", "_">> \o list_type \o <<"_">> \o Str(size) \o <<"_">> \o Str(offset)

\* the cache key of get_album_list2
AlbumList2Key(c, list_type, size, offset) ==
    c.base_url \o <<"_album_", "list2", "_">> \o list_type \o <<"_">> \o Str(size) \o <<"_">> \o Str(offset)

\* the cache key of get_album
AlbumKey(c, album_id) == c.base_url \o <<"_album_">> \o album_id

\* the result of a client call: raised/err, the value returned, the cache
\* afterwards and the HTTP requests issued
Result(raised, err, value, cache, net) ==
    [raised |-> raised, err |-> err, value |-> value, cache |-> cache, net |-> net]

\* faulty variant: "if cached_albums:" -- an empty list counts as a miss
IsTruthy(cached) == cached # None /\ cached[1] # << >>

\* "if cached_albums is not None:" / "if cached_songs is not None:"
IsNotNone(cached) == cached # None

\* get_album_list2
get_album_list2(c, list_type, size, offset, env) ==
    LET cache_key == AlbumList2Key(c, list_type, size, offset)
        cached_albums == IF SelfCache(c) THEN CacheGet(cache_key) ELSE None
        params == << <<"type", list_type>>, <<"size", Str(size)>>, <<"offset", Str(offset)>> >>
        page == ServerPage(c.base_url, list_type, size, offset)
        r == Get(c, <<"/", "rest/getAlbumList2.view">>, params, env, Reply(env, Wire(env.shape, page)))
        albums == Normalize(r.resp)
    IN  IF SelfCache(c) /\ IsNotNone(cached_albums)
        THEN Result(FALSE, << >>, cached_albums[1], global_cache, << >>)
        ELSE IF r.raised THEN Result(TRUE, r.err, << >>, global_cache, r.net)
        ELSE Result(FALSE, << >>, albums,
                    IF SelfCache(c) THEN CacheSet(cache_key, albums) ELSE global_cache, r.net)

\* the server's answer to getAlbum: an unknown id is answered with an error
AlbumReply(c, album_id, env) ==
    IF HasAlbum(c.base_url, album_id)
    THEN Reply(env, Wire(env.shape, ServerSongs(c.base_url, album_id)))
    ELSE Reply([env EXCEPT !.outcome = IF @ = "ok" THEN "failed" ELSE @], Wire("absent", << >>))

\* faulty variant: a failed fetch is remembered as an album without songs
get_album_failure_cached(c, album_id, env) ==
    LET cache_key == AlbumKey(c, album_id)
        cached_songs == IF SelfCache(c) THEN CacheGet(cache_key) ELSE None
        r == Get(c, <<"/", "rest/getAlbum.view">>, << <<"id", album_id>> >>, env, AlbumReply(c, album_id, env))
        songs == Normalize(r.resp)
    IN  IF SelfCache(c) /\ IsNotNone(cached_songs)
        THEN Result(FALSE, << >>, cached_songs[1], global_cache, << >>)
        ELSE IF r.raised
        THEN Result(TRUE, r.err, << >>,
                    IF SelfCache(c) THEN CacheSet(cache_key, << >>) ELSE global_cache, r.net)
        ELSE Result(FALSE, << >>, songs,
                    IF SelfCache(c) THEN CacheSet(cache_key, songs) ELSE global_cache, r.net)

\* get_album
get_album(c, album_id, env) ==
    LET cache_key == AlbumKey(c, album_id)
        cached_songs == IF SelfCache(c) THEN CacheGet(cache_key) ELSE None
        r == Get(c, <<"/", "rest/getAlbum.view">>, << <<"id", album_id>> >>, env, AlbumReply(c, album_id, env))
        songs == Normalize(r.resp)
    IN  IF SelfCache(c) /\ IsNotNone(cached_songs)
        THEN Result(FALSE, << >>, cached_songs[1], global_cache, << >>)
        ELSE IF r.raised THEN Result(TRUE, r.err, << >>, global_cache, r.net)
        ELSE Result(FALSE, << >>, songs,
                    IF SelfCache(c) THEN CacheSet(cache_key, songs) ELSE global_cache, r.net)

----------------------------------------------------------------------------
(* The playlist and search calls of SubsonicClient, and the server's side  *)
(* of them. The server reads the parameter pairs of the request as sent;   *)
(* st is its playlists at the time of the call.                            *)

\* the value of the first pair named key ("" when there is none)
ParamOf(pairs, key) ==
    LET ps == SelectSeq(pairs, LAMBDA q : q[1] = key)
    IN  IF ps = << >> THEN << >> ELSE ps[1][2]
HasParam(pairs, key) == \E i \in 1..Len(pairs) : pairs[i][1] = key

\* the values of the songId pairs, in the order they arrive
SongIdsOf(pairs) ==
    LET ps == SelectSeq(pairs, LAMBDA q : q[1] = "songId")
    IN  [i \in 1..Len(ps) |-> ps[i][2]]

HasPlaylist(st, id) == \E i \in 1..Len(st.pls) : st.pls[i].id = id
PlaylistOf(st, id) == st.pls[CHOOSE i \in 1..Len(st.pls) : st.pls[i].id = id]

\* what getPlaylists shows of a playlist
PlaylistInfo(pl) == [id |-> pl.id, name |-> pl.name, owner |-> pl.owner, public |-> pl.public]
ServerPlaylists(st) == [i \in 1..Len(st.pls) |-> PlaylistInfo(st.pls[i])]

\* the server stores a new playlist: a fresh id, the entries in request order
ServerCreate(st, pairs) ==
    [next |-> st.next + 1,
     pls |-> Append(st.pls,
                    Playlist(<<"pl">> \o Str(st.next), ParamOf(pairs, "name"), ParamOf(pairs, "u"),
                             FALSE, [i \in 1..Len(SongIdsOf(pairs)) |-> Song(SongIdsOf(pairs)[i])]))]

ServerUpdate(st, pairs) ==
    [st EXCEPT !.pls = [i \in 1..Len(@) |->
        IF @[i].id # ParamOf(pairs, "playlistId") THEN @[i]
        ELSE [@[i] EXCEPT !.name = IF HasParam(pairs, "name") THEN ParamOf(pairs, "name") ELSE @,
                          !.public = IF HasParam(pairs, "public")
                                     THEN ParamOf(pairs, "public") = <<"true">> ELSE @]]]

ServerDelete(st, pairs) ==
    [st EXCEPT !.pls = SelectSeq(@, LAMBDA pl : pl.id # ParamOf(pairs, "id"))]

\* the songs the server finds for a query: those of the album of that name
ServerSearch(host, query, count, offset) ==
    LET found == IF HasAlbum(host, query) THEN ServerSongs(host, query) ELSE << >>
        hi == Min(offset + count, Len(found))
    IN  [i \in 1..(IF hi > offset THEN hi - offset ELSE 0) |-> found[offset + i]]

\* the server's answer about a playlist id: an unknown id is answered with an error
PlaylistReply(st, id, env, body) ==
    IF HasPlaylist(st, id) THEN Reply(env, body)
    ELSE Reply([env EXCEPT !.outcome = IF @ = "ok" THEN "failed" ELSE @], Wire("absent", << >>))

\* how an API call without cache ends: the ValueError of _request goes on to
\* the caller, or the call returns value; reply is what the server had sent
Returned(r, value) ==
    [raised |-> r.raised, err |-> r.err, value |-> IF r.raised THEN << >> ELSE value,
     cache |-> global_cache, net |-> r.net, reply |-> r.reply]

\* the result of a call and the server's playlists afterwards
Effect(result, st) == [result |-> result, store |-> st]

\* faulty variant: a ping that answers False where _request raised
pingQuiet(c, env) ==
    LET r == Get(c, <<"/", "rest/ping.view">>, << >>, env, Reply(env, Wire("nocontainer", << >>)))
    IN  [Returned(r, TRUE) EXCEPT !.raised = FALSE, !.err = << >>, !.value = ~r.raised]

\* ping: resp.get("status") == "ok"
ping(c, env) ==
    LET r == Get(c, <<"/", "rest/ping.view">>, << >>, env, Reply(env, Wire("nocontainer", << >>)))
    IN  Returned(r, r.reply.status = "ok")

\* get_playlists
get_playlists(c, env, st) ==
    LET r == Get(c, <<"/", "rest/getPlaylists.view">>, << >>, env, Reply(env, Wire(env.shape, ServerPlaylists(st))))
    IN  Returned(r, Normalize(r.resp))

\* faulty variant: the entries of a playlist are kept in the response cache
get_playlist_tracks_cached(c, playlist_id, env, st) ==
    LET cache_key == c.base_url \o <<"_playlist_">> \o playlist_id
        cached == IF SelfCache(c) THEN CacheGet(cache_key) ELSE None
        body == IF HasPlaylist(st, playlist_id) THEN Wire(env.shape, PlaylistOf(st, playlist_id).entries)
                ELSE Wire("absent", << >>)
        r == Get(c, <<"/", "rest/getPlaylist.view">>, << <<"id", playlist_id>> >>, env,
                 PlaylistReply(st, playlist_id, env, body))
    IN  IF SelfCache(c) /\ IsNotNone(cached)
        THEN [Returned(r, cached[1]) EXCEPT !.raised = FALSE, !.err = << >>, !.value = cached[1],
                                            !.net = << >>]
        ELSE IF r.raised \/ ~SelfCache(c) THEN Returned(r, Normalize(r.resp))
        ELSE [Returned(r, Normalize(r.resp)) EXCEPT !.cache = CacheSet(cache_key, Normalize(r.resp))]

\* get_playlist_tracks
get_playlist_tracks(c, playlist_id, env, st) ==
    LET body == IF HasPlaylist(st, playlist_id) THEN Wire(env.shape, PlaylistOf(st, playlist_id).entries)
                ELSE Wire("absent", << >>)
        r == Get(c, <<"/", "rest/getPlaylist.view">>, << <<"id", playlist_id>> >>, env,
                 PlaylistReply(st, playlist_id, env, body))
    IN  Returned(r, Normalize(r.resp))

\* the "playlist" field of the answer to createPlaylist: an object with the id,
\* an object without id, no such field, or something that is no object
CreateWire(shape, id) ==
    CASE shape = "object"      -> [container |-> TRUE, field |-> "dict", val |-> id]
      [] shape = "absent"      -> [container |-> TRUE, field |-> "absent", val |-> << >>]
      [] shape = "nocontainer" -> [container |-> FALSE, field |-> "absent", val |-> << >>]
      [] OTHER                 -> [container |-> TRUE, field |-> "list", val |-> << >>]

\* create_playlist: the new id, or None
create_playlist(c, name, song_ids, env, st) ==
    LET params == << <<"name", name>> >>
        r == Post(c, <<"/", "rest/createPlaylist.view">>, params, song_ids, env,
                  Reply(env, CreateWire(env.shape, <<"pl">> \o Str(st.next))))
        pl == r.resp
        pl_id == IF pl.container /\ pl.field = "dict" THEN pl.val ELSE << >>
    IN  Effect(Returned(r, IF pl_id # << >> THEN Some(pl_id) ELSE None),
               IF r.raised THEN st ELSE ServerCreate(st, r.net[1].pairs))

\* update_playlist(playlist_id, name=, public=): name and public are None or Some(..)
update_playlist(c, playlist_id, name, public, env, st) ==
    LET params == << <<"playlistId", playlist_id>> >>
                  \o (IF name # None THEN << <<"name", name[1]>> >> ELSE << >>)
                  \o (IF public # None
                      THEN << <<"public", IF public[1] THEN <<"true">> ELSE <<"false">> >> >>
                      ELSE << >>)
        r == Post(c, <<"/", "rest/updatePlaylist.view">>, params, << >>, env,
                  PlaylistReply(st, playlist_id, env, Wire("nocontainer", << >>)))
    IN  Effect(Returned(r, None), IF r.raised THEN st ELSE ServerUpdate(st, r.net[1].pairs))

\* delete_playlist
delete_playlist(c, playlist_id, env, st) ==
    LET r == Post(c, <<"/", "rest/deletePlaylist.view">>, << <<"id", playlist_id>> >>, << >>, env,
                  PlaylistReply(st, playlist_id, env, Wire("nocontainer", << >>)))
    IN  Effect(Returned(r, None), IF r.raised THEN st ELSE ServerDelete(st, r.net[1].pairs))

\* search_songs(query, count=, offset=)
search_songs(c, query, count, offset, env) ==
    LET params == << <<"query", query>>, <<"songCount", Str(count)>>, <<"songOffset", Str(offset)>> >>
        r == Get(c, <<"/", "rest/search3.view">>, params, env,
                 Reply(env, Wire(env.shape, ServerSearch(c.base_url, query, count, offset))))
    IN  Returned(r, Normalize(r.resp))

----------------------------------------------------------------------------
(* Inputs *)

ClientArgs ==
    { << <<"nav", "/">>, <<"u1">>, <<"p1">>, TRUE >>,
      << <<"nav">>,      <<"u2">>, <<"p2">>, TRUE >>,
      << <<"nav">>,      <<"u1">>, <<"p1">>, FALSE >> }

ListArgs ==
    { << default_list_type, 1, 0 >>, << default_list_type, 2, 0 >>,
      << default_list_type, 1, 1 >>, << <<"newest">>, 1, 0 >> }

AlbumIds == { <<"a1">> }

----------------------------------------------------------------------------
(* Direct use of the client: construct, read, clear; the server's data may *)
(* change underneath.                                                      *)

NoCall == [op |-> "none", c |-> NewClient(<<>>, <<>>, <<>>, FALSE), req |-> << >>,
           net |-> << >>, raised |-> FALSE, err |-> << >>, value |-> << >>,
           prior |-> None, wasCleared |-> FALSE]

\* what is kept of an earlier run of the generator; none yet
NoRun ==
    [ran |-> FALSE, pc |-> "idle", page_size |-> 0, max_pages |-> 0, cancelled |-> FALSE,
     failed_ids |-> {}, failed_offset |-> -1, yielded |-> << >>, total |-> 0]

\* no generator yet
GenIdle ==
    [pc |-> "idle", c |-> NewClient(<<>>, <<>>, <<>>, FALSE), page_size |-> 0, max_pages |-> 0,
     progress_cb |-> FALSE, cancel_flag |-> FALSE,
     total_songs |-> 0, all_albums |-> << >>, offset |-> 0, pages |-> 0,
     fetched |-> 0, ai |-> 0, songs |-> << >>, si |-> 0,
     cancelled |-> FALSE, err |-> << >>,
     trace |-> << >>, requests |-> 0, capped |-> FALSE, failed |-> {},
     cancelAt |-> [pc |-> "never", k |-> -1], asked |-> << >>, pulls |-> 0, prev |-> NoRun]

\* no playlist browser open
NoPlaylist == PlaylistInfo(Playlist(<< >>, << >>, << >>, FALSE, << >>))
NoDialog ==
    [open |-> FALSE, c |-> NewClient(<<>>, <<>>, <<>>, FALSE), playlists |-> << >>, row |-> 0,
     tracks |-> << >>, deleted |-> {}, handler |-> "none", net |-> << >>, events |-> 0,
     before |-> [idx |-> 0, pl |-> NoPlaylist, tracks |-> << >>]]

Init ==
    /\ global_cache = NoGlobalCache
    /\ clients = {}
    /\ srv = [h \in Hosts |-> 1]
    /\ changes = 0
    /\ calls = 0
    /\ last = NoCall
    /\ seen = << >>
    /\ cleared = {}
    /\ gen = GenIdle
    /\ store = NoStore
    /\ ui = NoDialog

\* c = SubsonicClient(base_url, username, password, enable_cache=...)
Construct(a) ==
    /\ Cardinality(clients) < MaxClients
    /\ NewClient(a[1], a[2], a[3], a[4]) \notin clients
    /\ clients' = clients \cup { NewClient(a[1], a[2], a[3], a[4]) }
    /\ global_cache' = get_global_cache(a[4])
    /\ UNCHANGED <<srv, changes, calls, last, seen, cleared, gen, store, ui>>

\* bookkeeping of a direct call c.op(args) that came to r
Called(op, c, args, r) ==
    LET rq == << op, c.base_url, args >>
    IN  /\ calls' = calls + 1
        /\ global_cache' = r.cache
        /\ last' = [op |-> op, c |-> c, req |-> rq, net |-> r.net, raised |-> r.raised,
                    err |-> r.err, value |-> r.value,
                    prior |-> IF rq \in DOMAIN seen THEN Some(seen[rq]) ELSE None,
                    wasCleared |-> rq \in cleared]
        /\ seen' = IF c.enable_cache /\ ~r.raised /\ rq \notin DOMAIN seen
                   THEN [q \in (DOMAIN seen) \cup {rq} |->
                            IF q = rq THEN [value |-> r.value, by |-> c] ELSE seen[q]]
                   ELSE seen
        /\ cleared' = cleared \ {rq}
        /\ UNCHANGED <<clients, srv, changes, gen, store, ui>>

\* c.get_album_list2(list_type=, size=, offset=)
CallGetAlbumList2(c, a, env) ==
    /\ calls < MaxCalls
    /\ ShapeFits(env.shape, ServerPage(c.base_url, a[1], a[2], a[3]))
    /\ Called("get_album_list2", c, a, get_album_list2(c, a[1], a[2], a[3], env))

\* c.get_album(album_id)
CallGetAlbum(c, album_id, env) ==
    /\ calls < MaxCalls
    /\ IF HasAlbum(c.base_url, album_id)
       THEN ShapeFits(env.shape, ServerSongs(c.base_url, album_id))
       ELSE env.shape = "absent"
    /\ Called("get_album", c, album_id, get_album(c, album_id, env))

\* c.clear_cache()
clear_cache(c) ==
    /\ global_cache' = clear_global_cache
    /\ seen' = << >>
    /\ cleared' = cleared \cup DOMAIN seen
    /\ last' = NoCall
    /\ UNCHANGED <<clients, srv, changes, calls, gen, store, ui>>

\* the library on a server changes (to the next catalog)
ServerChange(host) ==
    /\ changes < MaxChanges
    /\ srv' = [srv EXCEPT ![host] = (@ % Len(Catalogs)) + 1]
    /\ changes' = changes + 1
    /\ UNCHANGED <<global_cache, clients, calls, last, seen, cleared, gen, store, ui>>

Next ==
    \/ \E a \in ClientArgs : Construct(a)
    \/ \E c \in clients, a \in ListArgs, env \in Envs : CallGetAlbumList2(c, a, env)
    \/ \E c \in clients, id \in AlbumIds, env \in Envs : CallGetAlbum(c, id, env)
    \/ \E c \in clients : clear_cache(c)
    \/ \E host \in Hosts : ServerChange(host)

Spec == Init /\ [][Next]_vars

----------------------------------------------------------------------------
(* The cached reads of one cache-enabled client, with album ids as free as  *)
(* a Python string is: an id may hold the text the other key is made of.  *)

KeyClient == NewClient(<<"nav">>, <<"u1">>, <<"p1">>, TRUE)
KeyAlbumIds == { <<"a1">>, <<"list2", "_">> \o default_list_type \o <<"_", "1", "_", "0">> }

InitKeys ==
    /\ clients = {KeyClient}
    /\ global_cache = [exists |-> TRUE, dict |-> EmptyDict]
    /\ srv = [h \in Hosts |-> 1]
    /\ changes = 0
    /\ calls = 0
    /\ last = NoCall
    /\ seen = << >>
    /\ cleared = {}
    /\ gen = GenIdle
    /\ store = NoStore
    /\ ui = NoDialog

NextKeys ==
    \/ \E c \in clients, a \in ListArgs, env \in Envs : CallGetAlbumList2(c, a, env)
    \/ \E c \in clients, id \in KeyAlbumIds, env \in Envs : CallGetAlbum(c, id, env)
    \/ \E c \in clients : clear_cache(c)

SpecKeys == InitKeys /\ [][NextKeys]_vars

----------------------------------------------------------------------------
(* iter_all_songs_stream: a generator.  gen.pc is its position:            *)
(*   created   the generator object exists, no code has run                *)
(*   pass1     at the head of the "while pages < max_pages" loop           *)
(*   progress0 pass 1 is over, before the initial progress update          *)
(*   album     at the head of "for album in all_albums"                    *)
(*   song      at the head of "for s in songs"                             *)
(*   callback  past the cancel check of a song, in progress_cb             *)
(*   yielded   suspended at "yield s"                                      *)
(*   final     after the album loop, before the final progress update      *)
(*   done      returned;   raised   left by an exception                   *)
(* gen.trace is what the consumer and the callback saw, in order.          *)

PageSizes == (1..MaxPageSize) \cup {DefaultPageSize}
MaxPagesArgs == {SmallMaxPages, DefaultMaxPages}

StreamClients ==
    { NewClient(<<"nav", "/">>, <<"u1">>, <<"p1">>, TRUE),
      NewClient(<<"nav">>, <<"u1">>, <<"p1">>, FALSE) }

ProgressEvent(fetched, total) == [ev |-> "progress", fetched |-> fetched, total |-> total, song |-> Song("")]
YieldEvent(s) == [ev |-> "yield", fetched |-> 0, total |-> 0, song |-> s]

\* faulty variant: "if progress_cb and total_songs:" -- nothing is reported while the total is 0
ReportUnlessZero(trace, progress_cb, fetched, total) ==
    IF progress_cb /\ total # 0 THEN Append(trace, ProgressEvent(fetched, total)) ELSE trace

\* "if progress_cb: try: progress_cb(fetched, total_songs) except Exception: pass"
Report(trace, progress_cb, fetched, total) ==
    IF progress_cb THEN Append(trace, ProgressEvent(fetched, total)) ELSE trace

\* faulty variant: the cancel flag is looked at in pass 2 only
CancelOnlyInPass2(g) == g.cancel_flag /\ g.cancelled /\ g.pc # "pass1"

\* faulty variant: the cancel flag is never looked at
CancelIgnored(g) == FALSE

\* "if cancel_flag and cancel_flag():"
CancelRequested(g) == g.cancel_flag /\ g.cancelled

\* faulty variant: a page shorter than page_size does not end pass 1
ShortPageIgnored(albums, page_size) == FALSE

\* faulty variant: "if len(albums) <= page_size: break"
ShortPageOrFull(albums, page_size) == Len(albums) <= page_size

\* "if len(albums) < page_size: break"
ShortPage(albums, page_size) == Len(albums) < page_size

\* sc = album.get("songCount", 0); int(sc), an exception counting nothing
SongCountOf(album) == IF album.sc.kind = "int" THEN album.sc.n ELSE 0

RECURSIVE PageSongCount(_)
\* the "for album in albums" loop that adds up page_song_count
PageSongCount(albums) ==
    IF albums = << >> THEN 0 ELSE SongCountOf(Head(albums)) + PageSongCount(Tail(albums))

\* gen = client.iter_all_songs_stream(page_size=, max_pages=, progress_cb=, cancel_flag=)
StartStream(c, page_size, max_pages, callbacks) ==
    /\ gen.pc = "idle"
    /\ gen' = [GenIdle EXCEPT !.pc = "created", !.c = c, !.page_size = page_size,
                              !.max_pages = max_pages, !.progress_cb = callbacks,
                              !.cancel_flag = callbacks, !.cancelled = gen.cancelled]
    /\ UNCHANGED <<global_cache, clients, srv, changes, calls, last, seen, cleared, store, ui>>

\* the consumer asks for the next element: next(gen)
Pull ==
    /\ gen.pc \in {"created", "yielded"}
    /\ gen' = IF gen.pc = "created"
              THEN [gen EXCEPT !.pc = "pass1", !.pulls = @ + 1]
              ELSE [gen EXCEPT !.pc = "song", !.si = @ + 1, !.pulls = @ + 1]
    /\ UNCHANGED <<global_cache, clients, srv, changes, calls, last, seen, cleared, store, ui>>

\* faulty variant: a failed page counts as the empty page
PageFetchSwallowed(r) ==
    [raised |-> FALSE, err |-> << >>, albums |-> IF r.raised THEN << >> ELSE r.value]

\* "albums = self.get_album_list2(size=page_size, offset=offset)", outside any try
PageFetch(r) == [raised |-> r.raised, err |-> r.err, albums |-> r.value]

\* what is noted of a call for a page: its offset, how many albums came (-1 if
\* the call failed) and the error it raised
Asked(g, r) ==
    [offset |-> g.offset, len |-> IF r.raised THEN -1 ELSE Len(r.value), err |-> r.err]

\* one turn of the pass-1 loop
Pass1Page(env) ==
    /\ gen.pc = "pass1"
    /\ LET r == get_album_list2(gen.c, default_list_type, gen.page_size, gen.offset, env)
           albums == PageFetch(r).albums
           g == [gen EXCEPT !.requests = @ + Len(r.net), !.asked = Append(@, Asked(gen, r))]
       IN  IF ~(gen.pages < gen.max_pages)
           THEN /\ gen' = [gen EXCEPT !.pc = "progress0", !.capped = TRUE]
                /\ UNCHANGED global_cache
           ELSE IF CancelRequested(gen)
           THEN /\ gen' = [gen EXCEPT !.pc = "done"]
                /\ UNCHANGED global_cache
           ELSE /\ ShapeFits(env.shape, ServerPage(gen.c.base_url, default_list_type, gen.page_size, gen.offset))
                /\ global_cache' = r.cache
                /\ gen' = IF PageFetch(r).raised
                          THEN [g EXCEPT !.pc = "raised", !.err = PageFetch(r).err]
                          ELSE IF albums = << >>
                          THEN [g EXCEPT !.pc = "progress0"]
                          ELSE [g EXCEPT !.total_songs = @ + PageSongCount(albums),
                                         !.all_albums = @ \o albums,
                                         !.pc = IF ShortPage(albums, gen.page_size) THEN "progress0" ELSE "pass1",
                                         !.offset = IF ShortPage(albums, gen.page_size) THEN @ ELSE @ + gen.page_size,
                                         !.pages = IF ShortPage(albums, gen.page_size) THEN @ ELSE @ + 1]
    /\ UNCHANGED <<clients, srv, changes, calls, last, seen, cleared, store, ui>>

\* the initial progress update, progress_cb(0, total_songs); then fetched = 0
InitialProgress ==
    /\ gen.pc = "progress0"
    /\ gen' = [gen EXCEPT !.trace = Report(@, gen.progress_cb, 0, gen.total_songs),
                          !.fetched = 0, !.ai = 1, !.pc = "album"]
    /\ UNCHANGED <<global_cache, clients, srv, changes, calls, last, seen, cleared, store, ui>>

\* faulty variant: the failure of get_album leaves the generator
AlbumFetchRaises(r) ==
    [songs |-> r.value, pc |-> IF r.raised THEN "raised" ELSE "song", err |-> r.err]

\* "try: songs = self.get_album(album_id) except Exception: songs = []"
AlbumFetch(r) ==
    [songs |-> IF r.raised THEN << >> ELSE r.value, pc |-> "song", err |-> << >>]

\* the head of the album loop: cancel check, album id, get_album
NextAlbum(env) ==
    /\ gen.pc = "album"
    /\ IF gen.ai > Len(gen.all_albums)
       THEN /\ gen' = [gen EXCEPT !.pc = "final"]
            /\ UNCHANGED global_cache
       ELSE IF CancelRequested(gen)
       THEN /\ gen' = [gen EXCEPT !.pc = "done"]
            /\ UNCHANGED global_cache
       ELSE LET album_id == gen.all_albums[gen.ai].id
                r == get_album(gen.c, album_id, env)
            IN  IF album_id = << >>
                THEN /\ gen' = [gen EXCEPT !.ai = @ + 1]
                     /\ UNCHANGED global_cache
                ELSE /\ IF HasAlbum(gen.c.base_url, album_id)
                        THEN ShapeFits(env.shape, ServerSongs(gen.c.base_url, album_id))
                        ELSE env.shape = "absent"
                     /\ global_cache' = r.cache
                     /\ gen' = [gen EXCEPT !.songs = AlbumFetch(r).songs,
                                           !.si = 1, !.pc = AlbumFetch(r).pc,
                                           !.err = AlbumFetch(r).err,
                                           !.requests = @ + Len(r.net),
                                           !.failed = IF r.raised THEN @ \cup {gen.ai} ELSE @]
    /\ UNCHANGED <<clients, srv, changes, calls, last, seen, cleared, store, ui>>

\* the head of the song loop: cancel check, fetched += 1
NextSong ==
    /\ gen.pc = "song"
    /\ gen' = IF gen.si > Len(gen.songs)
              THEN [gen EXCEPT !.pc = "album", !.ai = @ + 1]
              ELSE IF CancelRequested(gen)
              THEN [gen EXCEPT !.pc = "done"]
              ELSE [gen EXCEPT !.fetched = @ + 1, !.pc = "callback"]
    /\ UNCHANGED <<global_cache, clients, srv, changes, calls, last, seen, cleared, store, ui>>

\* faulty variant: the song is handed over and the loop goes on, as in iter_all_songs
YieldAndGoOn(g) == [g EXCEPT !.pc = "song", !.si = @ + 1]

\* "yield s": the generator is suspended until the consumer's next next()
Yield(g) == [g EXCEPT !.pc = "yielded"]

\* progress_cb(fetched, total_songs), then "yield s"
SongProgress ==
    /\ gen.pc = "callback"
    /\ gen' = Yield([gen EXCEPT !.trace = Append(Report(@, gen.progress_cb, gen.fetched, gen.total_songs),
                                                 YieldEvent(gen.songs[gen.si]))])
    /\ UNCHANGED <<global_cache, clients, srv, changes, calls, last, seen, cleared, store, ui>>

\* faulty variant: the final update reports the total as the count
FinalProgressFull ==
    /\ gen.pc = "final"
    /\ gen' = [gen EXCEPT !.trace = Report(@, gen.progress_cb, gen.total_songs, gen.total_songs),
                          !.pc = "done"]
    /\ UNCHANGED <<global_cache, clients, srv, changes, calls, last, seen, cleared, store, ui>>

\* the final progress update; the generator returns
FinalProgress ==
    /\ gen.pc = "final"
    /\ gen' = [gen EXCEPT !.trace = Report(@, gen.progress_cb, gen.fetched, gen.total_songs),
                          !.pc = "done"]
    /\ UNCHANGED <<global_cache, clients, srv, changes, calls, last, seen, cleared, store, ui>>

\* the number of collected albums pass 2 is through with, when the generator
\* stands between two albums; -1 elsewhere
AlbumsDone(g) ==
    CASE g.pc = "yielded" /\ g.si = Len(g.songs) -> g.ai
      [] g.pc = "song" /\ g.si > Len(g.songs)    -> g.ai
      [] g.pc = "album"                            -> g.ai - 1
      [] g.pc = "final"                            -> Len(g.all_albums)
      [] OTHER                                     -> -1

\* what cancel_flag() reads becomes true (the user cancels the progress dialog)
Cancel ==
    /\ gen.pc \notin {"idle", "done", "raised"}
    /\ ~gen.cancelled
    /\ gen' = [gen EXCEPT !.cancelled = TRUE,
                          !.cancelAt = [pc |-> gen.pc, k |-> AlbumsDone(gen)]]
    /\ UNCHANGED <<global_cache, clients, srv, changes, calls, last, seen, cleared, store, ui>>

InitStream ==
    /\ \E c \in StreamClients :
          /\ clients = {c}
          /\ global_cache = [exists |-> c.enable_cache, dict |-> EmptyDict]
    /\ srv \in [Hosts -> CatalogIds]
    /\ changes = 0
    /\ calls = 0
    /\ last = NoCall
    /\ seen = << >>
    /\ cleared = {}
    /\ gen = GenIdle
    /\ store = NoStore
    /\ ui = NoDialog

NextStream ==
    \/ \E c \in clients, ps \in PageSizes, mp \in MaxPagesArgs, cb \in BOOLEAN : StartStream(c, ps, mp, cb)
    \/ Pull
    \/ \E env \in Envs : Pass1Page(env)
    \/ InitialProgress
    \/ \E env \in Envs : NextAlbum(env)
    \/ NextSong
    \/ SongProgress
    \/ FinalProgress
    \/ Cancel

SpecStream == InitStream /\ [][NextStream]_vars

----------------------------------------------------------------------------
(* Two runs of iter_all_songs_stream on one cache-enabled client, the       *)
(* second started when the first has ended, with the same page size and no  *)
(* clear of the cache in between.                                           *)

TwoRunClient == NewClient(<<"nav">>, <<"u1">>, <<"p1">>, TRUE)
TwoRunPageSizes == {1, 2}
TwoRunEnvs == { e \in Envs : e.outcome \in {"ok", "transport"} /\ e.shape = "list" }

\* what is kept of the run that has ended
RunOf(g) ==
    [ran |-> TRUE, pc |-> g.pc, page_size |-> g.page_size, max_pages |-> g.max_pages,
     cancelled |-> g.cancel_flag /\ g.cancelled,
     failed_ids |-> { g.all_albums[k].id : k \in g.failed },
     failed_offset |-> IF g.pc = "raised" THEN g.offset ELSE -1,
     yielded |-> [i \in 1..Len(SelectSeq(g.trace, LAMBDA e : e.ev = "yield")) |->
                     SelectSeq(g.trace, LAMBDA e : e.ev = "yield")[i].song],
     total |-> g.total_songs]

\* a second gen = client.iter_all_songs_stream(page_size=, max_pages=) on the same client
StartAgain(max_pages) ==
    /\ gen.pc \in {"done", "raised"}
    /\ ~gen.prev.ran
    /\ gen' = [GenIdle EXCEPT !.pc = "created", !.c = gen.c, !.page_size = gen.page_size,
                              !.max_pages = max_pages, !.prev = RunOf(gen)]
    /\ UNCHANGED <<global_cache, clients, srv, changes, calls, last, seen, cleared, store, ui>>

InitTwoRuns ==
    /\ clients = {TwoRunClient}
    /\ global_cache = [exists |-> TRUE, dict |-> EmptyDict]
    /\ srv \in [Hosts -> CatalogIds]
    /\ changes = 0
    /\ calls = 0
    /\ last = NoCall
    /\ seen = << >>
    /\ cleared = {}
    /\ gen = GenIdle
    /\ store = NoStore
    /\ ui = NoDialog

NextTwoRuns ==
    \/ \E c \in clients, ps \in TwoRunPageSizes, mp \in MaxPagesArgs : StartStream(c, ps, mp, FALSE)
    \/ \E mp \in MaxPagesArgs : StartAgain(mp)
    \/ Pull
    \/ \E env \in TwoRunEnvs : Pass1Page(env)
    \/ InitialProgress
    \/ \E env \in TwoRunEnvs : NextAlbum(env)
    \/ NextSong
    \/ SongProgress
    \/ FinalProgress

SpecTwoRuns == InitTwoRuns /\ [][NextTwoRuns]_vars

\* the body of the generator goes on running while it is in the pass-1 loop
SpecStreamPass1 == SpecStream /\ WF_vars(\E env \in Envs : Pass1Page(env))

----------------------------------------------------------------------------
(* Every API call of one client, one call after the other, against a       *)
(* server that holds playlists; or one run of the streamer instead.        *)

OpsClients ==
    { NewClient(<<"nav">>, <<"alice">>, <<"p1">>, FALSE),
      NewClient(<<"nav", "/">>, <<"bob">>, <<"p2">>, TRUE) }

PlaylistNames == { <<"X">> }
SongIdLists ==
    { << >>, << <<"s1">> >>, << <<"s1">>, <<"s2">>, <<"s3">> >>, << <<"s2">>, <<"s1">>, <<"s2">> >> }
PlaylistIdArgs == { <<"pl", "1">>, <<"pl", "2">> }
UpdateArgs == { << Some(<<"Y">>), None >>, << None, Some(TRUE) >> }
SearchArgs == { << <<"a1">>, 10, 0 >>, << <<"a1">>, 1, 0 >>, << <<"zz">>, 10, 0 >> }
OpsPageSize == 2

\* the server holds one playlist of one song when the client starts
Store1 ==
    [next |-> 2,
     pls |-> << Playlist(<<"pl", "1">>, <<"Mix">>, <<"alice">>, FALSE, << Song(<<"s9">>) >>) >>]

\* bookkeeping of a call c.op(args) that came to r, the server's answer being
\* reply and its playlists st afterwards; again tells that the call before it
\* was the same call and returned
OpsCalled(op, c, args, r, reply, st) ==
    /\ gen.pc = "idle"
    /\ calls < MaxCalls
    /\ calls' = calls + 1
    /\ global_cache' = r.cache
    /\ store' = st
    /\ last' = [op |-> op, c |-> c, req |-> << op, c.base_url, args >>, net |-> r.net,
                raised |-> r.raised, err |-> r.err, value |-> r.value,
                prior |-> None, wasCleared |-> FALSE, reply |-> reply,
                again |-> last.req = << op, c.base_url, args >> /\ last.c = c /\ ~last.raised]
    /\ UNCHANGED <<clients, srv, changes, seen, cleared, gen, ui>>

CallPing(c, env) ==
    /\ env.shape = "nocontainer"
    /\ OpsCalled("ping", c, << >>, ping(c, env), ping(c, env).reply, store)

CallGetPlaylists(c, env) ==
    /\ ShapeFits(env.shape, ServerPlaylists(store))
    /\ OpsCalled("get_playlists", c, << >>, get_playlists(c, env, store), get_playlists(c, env, store).reply, store)

CallGetPlaylistTracks(c, playlist_id, env) ==
    /\ IF HasPlaylist(store, playlist_id) THEN ShapeFits(env.shape, PlaylistOf(store, playlist_id).entries)
       ELSE env.shape = "absent"
    /\ OpsCalled("get_playlist_tracks", c, playlist_id, get_playlist_tracks(c, playlist_id, env, store),
                 get_playlist_tracks(c, playlist_id, env, store).reply, store)

CallCreatePlaylist(c, name, song_ids, env) ==
    LET e == create_playlist(c, name, song_ids, env, store)
    IN  OpsCalled("create_playlist", c, << name, song_ids >>, e.result, e.result.reply, e.store)

CallUpdatePlaylist(c, playlist_id, a, env) ==
    LET e == update_playlist(c, playlist_id, a[1], a[2], env, store)
    IN  /\ env.shape = "nocontainer"
        /\ OpsCalled("update_playlist", c, << playlist_id, a >>, e.result, e.result.reply, e.store)

CallDeletePlaylist(c, playlist_id, env) ==
    LET e == delete_playlist(c, playlist_id, env, store)
    IN  /\ env.shape = "nocontainer"
        /\ OpsCalled("delete_playlist", c, playlist_id, e.result, e.result.reply, e.store)

CallSearchSongs(c, a, env) ==
    /\ ShapeFits(env.shape, ServerSearch(c.base_url, a[1], a[2], a[3]))
    /\ OpsCalled("search_songs", c, a, search_songs(c, a[1], a[2], a[3], env),
                 search_songs(c, a[1], a[2], a[3], env).reply, store)

\* c.get_album_list2(..) and c.get_album(..), which may answer from the cache
OpsGetAlbumList2(c, a, env) ==
    /\ ShapeFits(env.shape, ServerPage(c.base_url, a[1], a[2], a[3]))
    /\ OpsCalled("get_album_list2", c, a, get_album_list2(c, a[1], a[2], a[3], env),
                 Reply(env, Wire(env.shape, ServerPage(c.base_url, a[1], a[2], a[3]))), store)

OpsGetAlbum(c, album_id, env) ==
    /\ IF HasAlbum(c.base_url, album_id)
       THEN ShapeFits(env.shape, ServerSongs(c.base_url, album_id))
       ELSE env.shape = "absent"
    /\ OpsCalled("get_album", c, album_id, get_album(c, album_id, env),
                 AlbumReply(c, album_id, env), store)

InitOps ==
    /\ \E c \in OpsClients :
          /\ clients = {c}
          /\ global_cache = [exists |-> c.enable_cache, dict |-> EmptyDict]
    /\ srv = [h \in Hosts |-> 1]
    /\ changes = 0
    /\ calls = 0
    /\ last = NoCall
    /\ seen = << >>
    /\ cleared = {}
    /\ gen = GenIdle
    /\ store = Store1
    /\ ui = NoDialog

NextOps ==
    \/ \E c \in clients, env \in Envs : CallPing(c, env)
    \/ \E c \in clients, env \in Envs : CallGetPlaylists(c, env)
    \/ \E c \in clients, id \in PlaylistIdArgs, env \in Envs : CallGetPlaylistTracks(c, id, env)
    \/ \E c \in clients, name \in PlaylistNames, ids \in SongIdLists, env \in Envs :
          CallCreatePlaylist(c, name, ids, env)
    \/ \E c \in clients, id \in PlaylistIdArgs, a \in UpdateArgs, env \in Envs :
          CallUpdatePlaylist(c, id, a, env)
    \/ \E c \in clients, id \in PlaylistIdArgs, env \in Envs : CallDeletePlaylist(c, id, env)
    \/ \E c \in clients, a \in SearchArgs, env \in Envs : CallSearchSongs(c, a, env)
    \/ \E c \in clients, a \in ListArgs, env \in Envs : OpsGetAlbumList2(c, a, env)
    \/ \E c \in clients, id \in AlbumIds, env \in Envs : OpsGetAlbum(c, id, env)
    \/ \E c \in clients : calls = 0 /\ StartStream(c, OpsPageSize, SmallMaxPages, FALSE)
    \/ Pull
    \/ \E env \in Envs : Pass1Page(env)
    \/ InitialProgress
    \/ \E env \in Envs : NextAlbum(env)
    \/ NextSong
    \/ SongProgress
    \/ FinalProgress

SpecOps == InitOps /\ [][NextOps]_vars

----------------------------------------------------------------------------
(* NavidromeBrowserDialog: the list of playlists, the track list and the   *)
(* handlers that change a playlist. A handler runs to its end before the   *)
(* next event is handled; o, o1, o2, o3 are the outcomes of the requests   *)
(* it makes, in order. Rows are counted from 1 here, 0 is "no row" (-1 in  *)
(* the code). A world w is the dialog together with the server's           *)
(* playlists, as they stand between two statements of a handler. The       *)
(* handlers' own ownership checks are modelled, not the enabling and       *)
(* disabling of the buttons.                                               *)

\* str.lower(), token by token
LowerTok(t) == CASE t = "Alice" -> "alice" [] t = "Bob" -> "bob" [] OTHER -> t
Lower(s) == [i \in 1..Len(s) |-> LowerTok(s[i])]

BrowserOutcomes == {"ok", "transport"}
CreateShapes == {"object", "absent"}
MaxEvents == 2

\* the shape a server gives a list field that sends a single element bare
ShapeFor(s) == IF Len(s) = 0 THEN "absent" ELSE IF Len(s) = 1 THEN "object" ELSE "list"
EnvOf(outcome, shape) == [salt |-> "salt1", outcome |-> outcome, shape |-> shape]

\* the server as the dialog finds it: three playlists, of alice, bob and Alice
Store3 ==
    [next |-> 4,
     pls |-> << Playlist(<<"pl", "1">>, <<"Mix">>, <<"alice">>, FALSE,
                         << Song(<<"s1">>), Song(<<"s2">>), Song(<<"s3">>) >>),
                Playlist(<<"pl", "2">>, <<"Rock">>, <<"bob">>, TRUE, << Song(<<"s4">>), Song(<<"s5">>) >>),
                Playlist(<<"pl", "3">>, <<"Jazz">>, <<"Alice">>, FALSE, << Song(<<"s6">>) >>) >>]

BrowserClient == NewClient(<<"nav">>, <<"alice">>, <<"p1">>, FALSE)
NewNames == { <<"Best">> }
NewTrackIds == { << >>, << <<"s7">> >> }

\* the playlist id a request names ("" if none)
PlaylistIdOf(req) ==
    IF HasParam(req.pairs, "playlistId") THEN ParamOf(req.pairs, "playlistId")
    ELSE ParamOf(req.pairs, "id")

\* what is noted of the requests of a call: the request, whether it succeeded,
\* and whether it named a playlist the server had deleted before
Logged(r, deleted) ==
    [i \in 1..Len(r.net) |-> [req |-> r.net[i], ok |-> ~r.raised,
                               stale |-> PlaylistIdOf(r.net[i]) \in deleted]]

\* the dialog and the server when a handler begins
Begin == [ui |-> [ui EXCEPT !.net = << >>], store |-> store]

\* _current_playlist: the row, or 0
current_playlist(d) == IF d.row < 1 \/ d.row > Len(d.playlists) THEN 0 ELSE d.row

\* faulty variant: everybody owns every playlist
OwnerAlways(d) == TRUE

\* _is_current_user_owner
is_current_user_owner(d) ==
    /\ current_playlist(d) > 0
    /\ Lower(d.playlists[current_playlist(d)].owner) = Lower(d.c.username)

\* _on_playlist_selected(row)
on_playlist_selected(w, row, o) ==
    LET d == [w.ui EXCEPT !.tracks = << >>]
    IN  IF row < 1 \/ row > Len(d.playlists) THEN [w EXCEPT !.ui = d]
        ELSE LET playlist_id == d.playlists[row].id
                 entries == IF HasPlaylist(w.store, playlist_id)
                            THEN PlaylistOf(w.store, playlist_id).entries ELSE << >>
                 r == get_playlist_tracks(d.c, playlist_id, EnvOf(o, ShapeFor(entries)), w.store)
             IN  IF playlist_id = << >> THEN [w EXCEPT !.ui = d]
                 ELSE [w EXCEPT !.ui = [d EXCEPT !.net = @ \o Logged(r, d.deleted),
                                                 !.tracks = IF r.raised THEN << >> ELSE IdsOf(r.value)]]

\* _load_playlists: get_playlists, then the first row is made current (which
\* emits currentRowChanged) and _on_playlist_selected(0) is called once more
load_playlists(w, o, o1, o2) ==
    LET d == w.ui
        r == get_playlists(d.c, EnvOf(o, ShapeFor(ServerPlaylists(w.store))), w.store)
        d1 == [d EXCEPT !.net = @ \o Logged(r, d.deleted)]
        d2 == [d1 EXCEPT !.playlists = r.value, !.row = IF Len(r.value) > 0 THEN 1 ELSE 0]
    IN  IF r.raised THEN [w EXCEPT !.ui = d1]
        ELSE IF Len(r.value) = 0 THEN [w EXCEPT !.ui = d2]
        ELSE on_playlist_selected(on_playlist_selected([w EXCEPT !.ui = d2], 1, o1), 1, o2)

\* _rename_playlist; new_name is what the input dialog returned, stripped
rename_playlist(w, new_name, o) ==
    LET d == w.ui
        idx == current_playlist(d)
        pl == d.playlists[idx]
        e == update_playlist(d.c, pl.id, Some(new_name), None, EnvOf(o, "nocontainer"), w.store)
        d1 == [d EXCEPT !.net = @ \o Logged(e.result, d.deleted)]
    IN  IF idx < 1 THEN w
        ELSE IF ~is_current_user_owner(d) THEN w
        ELSE IF new_name = << >> \/ new_name = pl.name THEN w
        ELSE IF e.result.raised THEN [ui |-> d1, store |-> e.store]
        ELSE [ui |-> [d1 EXCEPT !.playlists[idx].name = new_name], store |-> e.store]

\* the list without its element at i
Without(s, i) == SubSeq(s, 1, i - 1) \o SubSeq(s, i + 1, Len(s))

\* _delete_playlist; proceed is the answer to "Delete ..?". takeItem makes a
\* neighbouring row current; signalled tells whether currentRowChanged reaches
\* _on_playlist_selected for it before the row is gone
delete_playlist_clicked(w, proceed, signalled, o, o1) ==
    LET d == w.ui
        idx == current_playlist(d)
        pl == d.playlists[idx]
        e == delete_playlist(d.c, pl.id, EnvOf(o, "nocontainer"), w.store)
        d1 == [d EXCEPT !.net = @ \o Logged(e.result, d.deleted)]
        d2 == [d1 EXCEPT !.deleted = @ \cup {pl.id}]
        neighbour == IF idx < Len(d.playlists) THEN idx + 1 ELSE idx - 1
        w3 == IF signalled THEN on_playlist_selected([ui |-> d2, store |-> e.store], neighbour, o1)
              ELSE [ui |-> d2, store |-> e.store]
    IN  IF idx < 1 THEN w
        ELSE IF ~is_current_user_owner(d) THEN w
        ELSE IF ~proceed THEN w
        ELSE IF e.result.raised THEN [ui |-> d1, store |-> e.store]
        ELSE [w3 EXCEPT !.ui = [w3.ui EXCEPT !.playlists = Without(@, idx),
                                             !.row = IF idx < Len(d.playlists) THEN idx ELSE idx - 1,
                                             !.tracks = << >>]]

\* _toggle_public, after a click on the checkbox
toggle_public(w, o) ==
    LET d == w.ui
        idx == current_playlist(d)
        pl == d.playlists[idx]
        make_public == ~pl.public
        e == update_playlist(d.c, pl.id, None, Some(make_public), EnvOf(o, "nocontainer"), w.store)
        d1 == [d EXCEPT !.net = @ \o Logged(e.result, d.deleted)]
    IN  IF idx < 1 THEN w
        ELSE IF ~is_current_user_owner(d) THEN w
        ELSE IF e.result.raised THEN [ui |-> d1, store |-> e.store]
        ELSE [ui |-> [d1 EXCEPT !.playlists[idx].public = make_public], store |-> e.store]

\* faulty variant: a create that failed is tried once more
recreate_retrying(w, idx, track_ids, o1, o2, shape) ==
    LET d == w.ui
        pl == d.playlists[idx]
        del == delete_playlist(d.c, pl.id, EnvOf(o1, "nocontainer"), w.store)
        d1 == [d EXCEPT !.net = @ \o Logged(del.result, d.deleted),
                        !.deleted = IF del.result.raised THEN @ ELSE @ \cup {pl.id}]
        first == create_playlist(d.c, pl.name, track_ids, EnvOf(o2, shape), del.store)
        again == create_playlist(d.c, pl.name, track_ids, EnvOf("ok", shape), first.store)
        cre == IF first.result.raised THEN again ELSE first
        d2 == [d1 EXCEPT !.net = @ \o Logged(first.result, d1.deleted)
                                   \o (IF first.result.raised THEN Logged(again.result, d1.deleted)
                                       ELSE << >>)]
        new_pl_id == cre.result.value
    IN  IF del.result.raised THEN [ui |-> d1, store |-> del.store, new_pl_id |-> None]
        ELSE IF cre.result.raised \/ new_pl_id = None
        THEN [ui |-> d2, store |-> cre.store, new_pl_id |-> None]
        ELSE [ui |-> [d2 EXCEPT !.playlists[idx].id = new_pl_id[1]], store |-> cre.store,
              new_pl_id |-> new_pl_id]

\* faulty variant: the playlist is created again whatever became of the delete
recreate_anyway(w, idx, track_ids, o1, o2, shape) ==
    LET d == w.ui
        pl == d.playlists[idx]
        del == delete_playlist(d.c, pl.id, EnvOf(o1, "nocontainer"), w.store)
        d1 == [d EXCEPT !.net = @ \o Logged(del.result, d.deleted),
                        !.deleted = IF del.result.raised THEN @ ELSE @ \cup {pl.id}]
        cre == create_playlist(d.c, pl.name, track_ids, EnvOf(o2, shape), del.store)
        d2 == [d1 EXCEPT !.net = @ \o Logged(cre.result, d1.deleted)]
        new_pl_id == cre.result.value
    IN  IF cre.result.raised \/ new_pl_id = None
        THEN [ui |-> d2, store |-> cre.store, new_pl_id |-> None]
        ELSE [ui |-> [d2 EXCEPT !.playlists[idx].id = new_pl_id[1]], store |-> cre.store,
              new_pl_id |-> new_pl_id]

\* "self.client.delete_playlist(playlist_id); new_pl_id = self.client.create_playlist(
\* new_name, track_ids); if new_pl_id: self._playlists[idx]["id"] = new_pl_id", in a
\* try whose except reports the failure
recreate(w, idx, track_ids, o1, o2, shape) ==
    LET d == w.ui
        pl == d.playlists[idx]
        del == delete_playlist(d.c, pl.id, EnvOf(o1, "nocontainer"), w.store)
        d1 == [d EXCEPT !.net = @ \o Logged(del.result, d.deleted),
                        !.deleted = IF del.result.raised THEN @ ELSE @ \cup {pl.id}]
        cre == create_playlist(d.c, pl.name, track_ids, EnvOf(o2, shape), del.store)
        d2 == [d1 EXCEPT !.net = @ \o Logged(cre.result, d1.deleted)]
        new_pl_id == cre.result.value
    IN  IF del.result.raised THEN [ui |-> d1, store |-> del.store, new_pl_id |-> None]
        ELSE IF cre.result.raised \/ new_pl_id = None
        THEN [ui |-> d2, store |-> cre.store, new_pl_id |-> None]
        ELSE [ui |-> [d2 EXCEPT !.playlists[idx].id = new_pl_id[1]], store |-> cre.store,
              new_pl_id |-> new_pl_id]

\* the world of a recreate, and after the reload that follows an id
Reloaded(rc, idx, o3) ==
    IF rc.new_pl_id = None THEN [ui |-> rc.ui, store |-> rc.store]
    ELSE on_playlist_selected([ui |-> rc.ui, store |-> rc.store], idx, o3)

\* _randomize_tracks; shuffled is what random.shuffle made of the track ids
randomize_tracks(w, shuffled, o1, o2, shape, o3) ==
    LET d == w.ui
        idx == current_playlist(d)
    IN  IF idx < 1 THEN w
        ELSE IF ~is_current_user_owner(d) THEN w
        ELSE IF d.tracks = << >> THEN w
        ELSE Reloaded(recreate(w, idx, shuffled, o1, o2, shape), idx, o3)

\* _remove_selected_track; current_row is the selected row of the track list
remove_selected_track(w, current_row, o1, o2, shape, o3) ==
    LET d == w.ui
        idx == current_playlist(d)
    IN  IF idx < 1 THEN w
        ELSE IF ~is_current_user_owner(d) THEN w
        ELSE IF current_row < 1 THEN w
        ELSE Reloaded(recreate(w, idx, Without(d.tracks, current_row), o1, o2, shape), idx, o3)

\* _add_new_songs; new_track_ids is what the library dialog was accepted with
\* (empty if it was not). That dialog accepts after a ping that returned true;
\* its loading of the library names no playlist and is left out here
add_new_songs(w, new_track_ids, o, o1, o2, shape, o3) ==
    LET d == w.ui
        idx == current_playlist(d)
        p == ping(d.c, EnvOf(o, "nocontainer"))
        d1 == [d EXCEPT !.net = @ \o Logged(p, d.deleted)]
        w1 == [w EXCEPT !.ui = d1]
    IN  IF idx < 1 THEN w
        ELSE IF ~is_current_user_owner(d) THEN w
        ELSE IF new_track_ids = << >> THEN w
        ELSE IF p.raised \/ p.value # TRUE THEN w1
        ELSE Reloaded(recreate(w1, idx, d.tracks \o new_track_ids, o1, o2, shape), idx, o3)

\* _on_tracks_reordered, after a drag has put the track list in order moved
on_tracks_reordered(w, moved, o1, o2, shape) ==
    LET d == [w.ui EXCEPT !.tracks = moved]
        w1 == [w EXCEPT !.ui = d]
        idx == current_playlist(d)
        rc == recreate(w1, idx, moved, o1, o2, shape)
    IN  IF idx < 1 THEN w1
        ELSE IF ~is_current_user_owner(d) THEN on_playlist_selected(w1, d.row, o1)
        ELSE IF moved = << >> THEN w1
        ELSE [ui |-> rc.ui, store |-> rc.store]

\* the orders a drag of one row of s can leave: row a is put at place b
MoveRow(s, a, b) ==
    LET t == Without(s, a) IN SubSeq(t, 1, b - 1) \o << s[a] >> \o SubSeq(t, b, Len(t))
Moves(s) == { MoveRow(s, a, b) : a \in 1..Len(s), b \in 1..Len(s) } \ {s}
\* what random.shuffle can make of s
Shuffles(s) == { [i \in 1..Len(s) |-> s[p[i]]] : p \in Permutations(1..Len(s)) }

\* bookkeeping of an event: handler ran from the present state and left world w
Handled(handler, w) ==
    /\ ui.open
    /\ ui.events < MaxEvents
    /\ ui' = [w.ui EXCEPT !.handler = handler, !.events = ui.events + 1,
                          !.before = [idx |-> current_playlist(ui),
                                      pl |-> IF current_playlist(ui) > 0
                                             THEN ui.playlists[current_playlist(ui)] ELSE NoPlaylist,
                                      tracks |-> ui.tracks]]
    /\ store' = w.store
    /\ UNCHANGED <<global_cache, clients, srv, changes, calls, last, seen, cleared, gen>>

\* NavidromeBrowserDialog(parent, client): __init__ ends with _load_playlists()
OpenBrowser(o, o1, o2) ==
    LET d0 == [NoDialog EXCEPT !.open = TRUE, !.c = BrowserClient, !.handler = "_load_playlists"]
        w == load_playlists([ui |-> d0, store |-> store], o, o1, o2)
    IN  /\ ~ui.open
        /\ ui' = w.ui
        /\ store' = w.store
        /\ UNCHANGED <<global_cache, clients, srv, changes, calls, last, seen, cleared, gen>>

\* the user makes row current, or a refresh reloads the current row
SelectPlaylist(row, o) ==
    /\ ui.open /\ row \in 1..Len(ui.playlists)
    /\ Handled("_on_playlist_selected", on_playlist_selected([Begin EXCEPT !.ui.row = row], row, o))

RenamePlaylist(new_name, o) == Handled("_rename_playlist", rename_playlist(Begin, new_name, o))

DeletePlaylist(proceed, signalled, o, o1) ==
    Handled("_delete_playlist", delete_playlist_clicked(Begin, proceed, signalled, o, o1))

TogglePublic(o) == Handled("_toggle_public", toggle_public(Begin, o))

RandomizeTracks(shuffled, o1, o2, shape, o3) ==
    Handled("_randomize_tracks", randomize_tracks(Begin, shuffled, o1, o2, shape, o3))

RemoveSelectedTrack(current_row, o1, o2, shape, o3) ==
    Handled("_remove_selected_track", remove_selected_track(Begin, current_row, o1, o2, shape, o3))

AddNewSongs(new_track_ids, o, o1, o2, shape, o3) ==
    Handled("_add_new_songs", add_new_songs(Begin, new_track_ids, o, o1, o2, shape, o3))

TracksReordered(moved, o1, o2, shape) ==
    Handled("_on_tracks_reordered", on_tracks_reordered(Begin, moved, o1, o2, shape))

InitBrowser ==
    /\ clients = {BrowserClient}
    /\ global_cache = NoGlobalCache
    /\ srv = [h \in Hosts |-> 1]
    /\ changes = 0
    /\ calls = 0
    /\ last = NoCall
    /\ seen = << >>
    /\ cleared = {}
    /\ gen = GenIdle
    /\ store = Store3
    /\ ui = NoDialog

NextBrowser ==
    \/ \E o, o1, o2 \in BrowserOutcomes : OpenBrowser(o, o1, o2)
    \/ \E row \in 1..Len(ui.playlists), o \in BrowserOutcomes : SelectPlaylist(row, o)
    \/ \E new_name \in NewNames, o \in BrowserOutcomes : RenamePlaylist(new_name, o)
    \/ \E proceed, signalled \in BOOLEAN, o, o1 \in BrowserOutcomes : DeletePlaylist(proceed, signalled, o, o1)
    \/ \E o \in BrowserOutcomes : TogglePublic(o)
    \/ \E o1, o2, o3 \in BrowserOutcomes, shape \in CreateShapes :
          \E shuffled \in Shuffles(ui.tracks) : RandomizeTracks(shuffled, o1, o2, shape, o3)
    \/ \E o1, o2, o3 \in BrowserOutcomes, shape \in CreateShapes :
          \E current_row \in 0..Len(ui.tracks) : RemoveSelectedTrack(current_row, o1, o2, shape, o3)
    \/ \E o, o1, o2, o3 \in BrowserOutcomes, shape \in CreateShapes :
          \E new_track_ids \in NewTrackIds : AddNewSongs(new_track_ids, o, o1, o2, shape, o3)
    \/ \E o1, o2 \in BrowserOutcomes, shape \in CreateShapes :
          \E moved \in Moves(ui.tracks) : TracksReordered(moved, o1, o2, shape)

SpecBrowser == InitBrowser /\ [][NextBrowser]_vars

----------------------------------------------------------------------------
(* Claims about the cache, under Spec *)

IsCall == last.op # "none"
Cached == IsCall /\ last.c.enable_cache /\ last.prior # None
HitsPrior == last.net = << >> /\ ~last.raised /\ last.value = last.prior[1].value

\* C1: a get_album_list2 call by a cache-enabled client, made after an earlier call
\* with the same base URL, list type, size and offset returned a value to a
\* cache-enabled client and with no clear in between, issues no network request
\* and returns the value the first call returned (an empty page included).
C1_SecondPageCallFromCache ==
    (Cached /\ last.op = "get_album_list2") => HitsPrior

C1_Witness ==
    /\ Cached /\ last.op = "get_album_list2"
    /\ last.net = << >> /\ last.value = << >>
    /\ ServerPage(last.c.base_url, last.req[3][1], last.req[3][2], last.req[3][3]) = << >>

\* C2: on a cache-enabled client whose base URL was given with a trailing slash,
\* get_album(id) issues exactly one GET to <base without the slash>/rest/getAlbum.view
\* carrying id when nothing is cached for {base URL, id}, and none at all
\* once a value is cached: two calls issue exactly one GET.
SlashClients ==
    { NewClient(a[1], a[2], a[3], a[4]) : a \in { x \in ClientArgs : x[1][Len(x[1])] = "/" /\ x[4] } }

C2_GetAlbumTwiceOneGet ==
    (IsCall /\ last.op = "get_album" /\ last.c \in SlashClients) =>
        IF last.prior = None
        THEN /\ Len(last.net) = 1
             /\ last.net[1].method = "GET"
             /\ last.net[1].url = <<"nav", "/", "rest/getAlbum.view">>
             /\ \E i \in 1..Len(last.net[1].pairs) : last.net[1].pairs[i] = <<"id", last.req[3]>>
        ELSE HitsPrior

C2_Witness ==
    /\ Cached /\ last.op = "get_album" /\ last.c \in SlashClients
    /\ last.net = << >> /\ Len(last.value) > 0

\* C3: the first call, after a clear, of a read that had a cached value when
\* the cache was cleared issues a network request.
C3_ClearForcesRefetch ==
    (IsCall /\ last.wasCleared) => Len(last.net) = 1

C3_Witness ==
    IsCall /\ last.wasCleared /\ last.c.enable_cache /\ ~last.raised /\ Len(last.net) = 1

\* C4: every get_album_list2 and get_album call on a client constructed with
\* enable_cache=False issues a network request, also when the value is in the
\* cache, and leaves the process-wide cache as it was.
C4_DisabledClientBypassesCache ==
    [][(calls' = calls + 1 /\ ~last'.c.enable_cache) =>
          (Len(last'.net) = 1 /\ global_cache' = global_cache)]_vars

C4_Witness ==
    /\ IsCall /\ ~last.c.enable_cache /\ last.prior # None /\ ~last.raised
    /\ Len(last.net) = 1 /\ global_cache.dict # EmptyDict

\* C5: a value stored by a read on one cache-enabled client is returned, with no
\* network request, to the same read on another cache-enabled client with the
\* same base URL, whatever its username and password; and a clear through any
\* client leaves the one store empty.
C5_OneStoreForAllClients ==
    [][/\ (calls' = calls + 1 /\ last'.c.enable_cache /\ last'.prior # None
             /\ last'.prior[1].by # last'.c)
          => (last'.net = << >> /\ ~last'.raised /\ last'.value = last'.prior[1].value)
       /\ (\E c \in clients : clear_cache(c)) => global_cache'.dict = EmptyDict]_vars

C5_Witness ==
    /\ Cached /\ last.prior[1].by.username # last.c.username
    /\ last.prior[1].by.password # last.c.password
    /\ last.net = << >>

\* C27: a call answered from the cache was preceded, since the last clear, by
\* the same read (same operation, base URL and arguments) on a cache-enabled
\* client; no read is answered with what another read stored.
C27_KeyDeterminesRead ==
    (IsCall /\ last.c.enable_cache /\ last.net = << >> /\ ~last.raised) => last.prior # None

----------------------------------------------------------------------------
(* Claims about iter_all_songs_stream, under SpecStream *)

RECURSIVE SumSongCounts(_, _)
SumSongCounts(cat, n) ==
    IF n = 0 THEN 0
    ELSE SumSongCounts(cat, n - 1) + (IF cat[n].sc.kind = "int" THEN cat[n].sc.n ELSE 0)

Pass1Over == gen.pc = "progress0" \/ gen.ai >= 1

\* the songs the consumer received, in order
Yielded(trace) ==
    LET ys == SelectSeq(trace, LAMBDA e : e.ev = "yield")
    IN  [i \in 1..Len(ys) |-> ys[i].song]

\* the songs pass 2 obtains for the first k collected albums: none for an album
\* without id or whose get_album failed
RECURSIVE SongsOfFirst(_)
SongsOfFirst(k) ==
    IF k = 0 THEN << >>
    ELSE SongsOfFirst(k - 1) \o
         (IF gen.all_albums[k].id = << >> \/ k \in gen.failed THEN << >>
          ELSE ServerSongs(gen.c.base_url, gen.all_albums[k].id))

\* C6: when pass 1 is over and did not end at the page cap, total_songs is the
\* sum of the songCount of every album of the catalog, whatever the page size.
C6_Pass1TotalIsCatalogSum ==
    (Pass1Over /\ ~gen.capped) =>
        gen.total_songs = SumSongCounts(CatalogOf(gen.c.base_url), Len(CatalogOf(gen.c.base_url)))

C6_Witness ==
    /\ Pass1Over /\ ~gen.capped /\ gen.page_size = 3 /\ gen.pages = 1
    /\ CatalogOf(gen.c.base_url) = Cat1 /\ gen.total_songs = 10

\* C7: when the cancellation predicate becomes true with pass 2 standing between
\* two albums, k albums done, the stream yields exactly the songs of the first k
\* collected albums, in order, and raises no error.
C7_CancelBetweenAlbums ==
    (gen.cancel_flag /\ gen.cancelled /\ gen.cancelAt.k >= 0) =>
        /\ gen.pc # "raised"
        /\ Yielded(gen.trace) = SongsOfFirst(gen.cancelAt.k)

C7_Witness ==
    /\ gen.pc = "done" /\ gen.cancel_flag /\ gen.cancelled /\ gen.cancelAt.k = 2
    /\ Len(gen.all_albums) = 4 /\ gen.failed = {}
    /\ Len(Yielded(gen.trace)) = 8

\* C8: once the cancellation predicate is true, no further item is yielded.
C8_NoItemAfterCancel ==
    [][(gen.cancel_flag /\ gen.cancelled) => Yielded(gen'.trace) = Yielded(gen.trace)]_vars

\* C9 as claimed: in an uncancelled run the callback is called with (0, total),
\* then after every yielded song, then once more at the end.
C9_ProgressAfterEachSong ==
    (gen.pc = "done" /\ gen.progress_cb /\ ~gen.cancelled) =>
        LET songs == Yielded(gen.trace)
            n == Len(songs)
            T == gen.total_songs
        IN  gen.trace = <<ProgressEvent(0, T)>>
                        \o [j \in 1..(2 * n) |-> IF j % 2 = 1 THEN YieldEvent(songs[(j + 1) \div 2])
                                                 ELSE ProgressEvent(j \div 2, T)]
                        \o <<ProgressEvent(n, T)>>

\* C9 amended: in an uncancelled run the callback is called with (0, total) once
\* after pass 1 (also when total is 0), then once for every song, with the count
\* that includes it, right before that song is yielded, and once more at the end
\* with the final count.
C9_ProgressBeforeEachSong ==
    (gen.pc = "done" /\ gen.progress_cb /\ ~gen.cancelled) =>
        LET songs == SongsOfFirst(Len(gen.all_albums))
            n == Len(songs)
            T == gen.total_songs
        IN  gen.trace = <<ProgressEvent(0, T)>>
                        \o [j \in 1..(2 * n) |-> IF j % 2 = 1 THEN ProgressEvent((j + 1) \div 2, T)
                                                 ELSE YieldEvent(songs[j \div 2])]
                        \o <<ProgressEvent(n, T)>>

C9_Witness ==
    /\ gen.pc = "done" /\ gen.progress_cb /\ ~gen.cancelled
    /\ Len(Yielded(gen.trace)) >= 2 /\ gen.failed = {}

\* C10: the callback is never called with a fetched count above the total.
C10_FetchedNeverAboveTotal ==
    \A i \in 1..Len(gen.trace) :
        gen.trace[i].ev = "progress" => gen.trace[i].fetched <= gen.trace[i].total

\* C11: when get_album fails for an album in pass 2 (transport, protocol or
\* application failure), the stream raises no error and skips that album only:
\* an uncancelled run ends having yielded the songs of every other collected
\* album, in collection order.
C11_FailedAlbumSkipped ==
    gen.failed # {} =>
        /\ gen.pc # "raised"
        /\ (gen.pc = "done" /\ ~gen.cancelled) =>
               Yielded(gen.trace) = SongsOfFirst(Len(gen.all_albums))

C11_Witness ==
    /\ gen.pc = "done" /\ ~gen.cancelled /\ gen.failed = {2}
    /\ Len(gen.all_albums) = 4
    /\ Yielded(gen.trace) = ServerSongs(gen.c.base_url, <<"a1">>)
                               \o ServerSongs(gen.c.base_url, <<"a4">>)
    /\ Len(Yielded(gen.trace)) = 5

\* a page as long as was asked for
FullPage(i) == gen.asked[i].len >= gen.page_size
Pass1Stops ==
    /\ \A i \in 1..Len(gen.asked) : gen.asked[i].offset = (i - 1) * gen.page_size
    /\ Len(gen.asked) <= gen.max_pages
    /\ \A i \in 1..(Len(gen.asked) - 1) : FullPage(i)
    /\ gen.pc = "pass1" => \A i \in 1..Len(gen.asked) : FullPage(i)
    /\ Pass1Over => \/ Len(gen.asked) = gen.max_pages
                    \/ Len(gen.asked) > 0 /\ ~FullPage(Len(gen.asked))

\* C22: pass 1 asks for the pages at offsets 0, page_size, 2*page_size, ..., goes
\* on only after a full page, is over after the first page that is empty or
\* shorter than page_size and in any case after max_pages pages; and it always
\* comes to an end.
C22_Pass1Terminates ==
    /\ []Pass1Stops
    /\ (gen.pc = "pass1") ~> (gen.pc # "pass1")

C22_Witness ==
    /\ Pass1Over /\ gen.capped /\ gen.max_pages = SmallMaxPages
    /\ Len(gen.asked) = gen.max_pages /\ FullPage(Len(gen.asked))
    /\ Len(CatalogOf(gen.c.base_url)) > gen.max_pages * gen.page_size

\* the cancellation predicate turned true no later than at a page boundary of pass 1
CancelledAtPage == gen.cancel_flag /\ gen.cancelled /\ gen.cancelAt.pc \in {"created", "pass1"}

\* C23: once the cancellation predicate is true at a page boundary of pass 1, the
\* generator asks for no further page and no album, yields no song and raises
\* nothing; at the head of a turn of the loop its next step is its return.
C23_CancelAtPageBoundary ==
    [][CancelledAtPage =>
          /\ gen'.requests = gen.requests /\ gen'.asked = gen.asked
          /\ Yielded(gen'.trace) = << >>
          /\ gen'.pc # "raised"
          /\ (gen.pc = "pass1" /\ gen.pages < gen.max_pages) => gen'.pc = "done"]_vars

C23_Witness ==
    /\ CancelledAtPage /\ gen.cancelAt.pc = "pass1" /\ gen.pc = "done"
    /\ Len(gen.asked) = 1 /\ FullPage(1) /\ gen.requests = 1
    /\ Len(CatalogOf(gen.c.base_url)) > gen.page_size

\* C26: the generator runs only while the consumer waits for an element. When
\* it calls get_album for a collected album, every song of the albums before it
\* has been yielded and the consumer has asked for one element more; and a
\* request goes out only when the consumer has asked for more than it received.
C26_PullBased ==
    [][/\ (gen.pc = "album" /\ gen'.pc = "song") =>
             /\ Yielded(gen.trace) = SongsOfFirst(gen.ai - 1)
             /\ gen.pulls = Len(Yielded(gen.trace)) + 1
       /\ gen'.requests > gen.requests => gen.pulls > Len(Yielded(gen.trace))]_vars

C26_Witness ==
    /\ gen.pc = "song" /\ gen.ai = 2 /\ gen.si = 1 /\ Len(gen.songs) = 5
    /\ gen.pulls = 4 /\ Len(Yielded(gen.trace)) = 3 /\ gen.requests >= 3

\* the calls of the progress callback, in order
Progressed(trace) == SelectSeq(trace, LAMBDA e : e.ev = "progress")

\* C29: every call of the progress callback in a run has the same total; the
\* first has the count 0; the counts never go down; the call made for the k-th
\* yielded song has the count k; and when the run has ended the last call's
\* count is the number of songs yielded.
C29_ProgressCounts ==
    LET ps == Progressed(gen.trace)
    IN  /\ \A i \in 1..Len(ps) : ps[i].total = ps[1].total
        /\ Len(ps) > 0 => ps[1].fetched = 0
        /\ \A i \in 1..(Len(ps) - 1) : ps[i + 1].fetched >= ps[i].fetched
        /\ gen.progress_cb =>
              \A j \in 1..Len(gen.trace) :
                  gen.trace[j].ev = "yield" =>
                      /\ j > 1 /\ gen.trace[j - 1].ev = "progress"
                      /\ gen.trace[j - 1].fetched = Len(Yielded(SubSeq(gen.trace, 1, j)))
        /\ (gen.pc = "done" /\ Len(ps) > 0) => ps[Len(ps)].fetched = Len(Yielded(gen.trace))

C29_Witness ==
    /\ gen.pc = "done" /\ gen.progress_cb /\ ~gen.cancelled
    /\ Len(Yielded(gen.trace)) = 3 /\ gen.total_songs = 1
    /\ Progressed(gen.trace)[Len(Progressed(gen.trace))] = ProgressEvent(3, 1)

----------------------------------------------------------------------------
(* Claims about the API calls, under SpecOps *)

\* t occurs in s as a run of consecutive tokens
Mentions(s, t) == \E i \in 1..(Len(s) - Len(t) + 1) : SubSeq(s, i, i + Len(t) - 1) = t

\* the last call sent a request and this is how its answer arrived
Sent == last.op # "none" /\ Len(last.net) = 1
EnvelopeArrived == ~last.reply.transport_error /\ last.reply.is_json /\ last.reply.has_envelope
\* the endpoint path of a request of client c
EndpointOf(c, req) == SubSeq(req.url, Len(c.base_url) + 1, Len(req.url))

ListOps == {"get_playlists", "get_playlist_tracks", "search_songs", "get_album_list2", "get_album"}

C13_CreateThenTracksInOrder ==
    [][(/\ last.op = "create_playlist" /\ ~last.raised /\ last.value # None
        /\ calls' = calls + 1 /\ last'.op = "get_playlist_tracks"
        /\ last'.req[3] = last.value[1] /\ ~last'.raised)
       => LET ids == last.req[3][2]
              pairs == last.net[1].pairs
              n == Len(pairs) - Len(ids)
          IN  /\ n >= 0
              /\ \A i \in 1..n : pairs[i][1] # "songId"
              /\ \A i \in 1..Len(ids) : pairs[n + i] = << "songId", ids[i] >>
              /\ IdsOf(last'.value) = ids]_vars

C13_Witness ==
    /\ last.op = "get_playlist_tracks" /\ ~last.raised /\ last.req[3] = <<"pl", "2">>
    /\ IdsOf(last.value) = << <<"s2">>, <<"s1">>, <<"s2">> >>

\* C16: a call returns only when the answer has the envelope and its status is
\* "ok"; an envelope with another status makes the call fail with an error that
\* carries the code and the message of the envelope's error.
C16_PayloadOnlyFromOkEnvelope ==
    Sent =>
        /\ ~last.raised => (EnvelopeArrived /\ last.reply.status = "ok")
        /\ (EnvelopeArrived /\ last.reply.status # "ok") =>
              /\ last.raised
              /\ Mentions(last.err, last.reply.error.code)
              /\ Mentions(last.err, last.reply.error.message)

C16_Witness ==
    /\ Sent /\ EnvelopeArrived /\ last.reply.status = "failed" /\ last.raised
    /\ last.err = <<"Subsonic error ", "70", ": ", "not found">>

\* C17: when the HTTP exchange succeeds and the body is not JSON, or is JSON
\* without the envelope key, the call fails with an error that is neither the
\* network error nor the application error and that mentions the endpoint.
C17_ProtocolErrorNamesEndpoint ==
    (Sent /\ ~last.reply.transport_error /\ (~last.reply.is_json \/ ~last.reply.has_envelope)) =>
        /\ last.raised
        /\ last.err[1] \notin {"HTTP error calling ", "Subsonic error "}
        /\ Mentions(last.err, EndpointOf(last.c, last.net[1]))

\* the album requests pass 2 has made at most, one for each album it began
AlbumsTried ==
    IF gen.ai = 0 THEN 0
    ELSE IF gen.pc = "album" THEN gen.ai - 1
    ELSE Min(gen.ai, Len(gen.all_albums))

\* C18: one API call issues at most one HTTP request, a failed one included;
\* and the streamer issues at most one request for each page and each album.
C18_AtMostOneRequestPerCall ==
    /\ last.op # "none" => Len(last.net) <= 1
    /\ gen.requests <= gen.pages + 1 + AlbumsTried

C18_Witness ==
    /\ Sent /\ last.raised /\ last.op = "get_playlists"

\* C19 as claimed: ping returns a boolean for every answer that has an
\* envelope, true if and only if the status of the envelope is "ok".
C19_PingReturnsStatusOk ==
    (last.op = "ping" /\ EnvelopeArrived) =>
        (~last.raised /\ (last.value = TRUE <=> last.reply.status = "ok"))

\* C19 amended: ping returns if and only if the answer has an envelope whose
\* status is "ok", and then it returns true; for any other status it raises
\* the error of _request and never returns false.
C19_PingTrueOrRaises ==
    last.op = "ping" =>
        /\ ~last.raised <=> (EnvelopeArrived /\ last.reply.status = "ok")
        /\ ~last.raised => last.value = TRUE
        /\ last.raised => Len(last.err) > 0

C19_Witness ==
    /\ last.op = "ping" /\ EnvelopeArrived /\ last.reply.status = "failed"
    /\ last.raised /\ Mentions(last.err, <<"Subsonic error ">>)

\* an answer that is not the envelope with status "ok"
FailedReply(reply) ==
    reply.transport_error \/ ~reply.is_json \/ ~reply.has_envelope \/ reply.status # "ok"

\* C24: a direct call whose request fails raises the error of _request as it
\* is; and a call for a page that fails in pass 1 ends the generator with that
\* error, no song yielded and no album asked for.
C24_FailuresPropagate ==
    /\ (Sent /\ FailedReply(last.reply)) =>
          /\ last.raised
          /\ last.err = request(last.c, EndpointOf(last.c, last.net[1]), << >>, last.net[1].method,
                                << >>, EnvOf("ok", "absent"), last.reply).err
    /\ \A i \in 1..Len(gen.asked) :
          gen.asked[i].len = -1 =>
              /\ i = Len(gen.asked) /\ gen.pc = "raised" /\ gen.ai = 0
              /\ gen.err = gen.asked[i].err /\ gen.err # << >>
              /\ Yielded(gen.trace) = << >>

C24_Witness ==
    /\ gen.pc = "raised" /\ Len(gen.asked) = 2 /\ FullPage(1) /\ gen.asked[2].len = -1
    /\ gen.err = <<"HTTP error calling ", "/", "rest/getAlbumList2.view">>

PlaylistOps ==
    {"get_playlists", "get_playlist_tracks", "create_playlist", "update_playlist", "delete_playlist"}

\* C25: every playlist call sends one request and leaves the response cache as
\* it was, on a client with caching enabled too; and get_playlist_tracks, when
\* it returns, returns the entries the server holds at that time, in the
\* server's order, also right after the same call.
C25_PlaylistCallsUncached ==
    [][(calls' = calls + 1 /\ last'.op \in PlaylistOps) =>
          /\ Len(last'.net) = 1
          /\ global_cache' = global_cache
          /\ (last'.op = "get_playlist_tracks" /\ ~last'.raised) =>
                last'.value = PlaylistOf(store, last'.req[3]).entries]_vars

C25_Witness ==
    /\ last.op = "get_playlist_tracks" /\ last.c.enable_cache /\ ~last.raised
    /\ last.again /\ Len(last.net) = 1
    /\ last.value = << Song(<<"s9">>) >> /\ global_cache.dict = EmptyDict

----------------------------------------------------------------------------
(* Claims about the playlist browser, under SpecBrowser *)

MutationHandlers ==
    {"_rename_playlist", "_delete_playlist", "_toggle_public", "_randomize_tracks",
     "_remove_selected_track", "_add_new_songs", "_on_tracks_reordered"}
Recreating ==
    {"_randomize_tracks", "_remove_selected_track", "_add_new_songs", "_on_tracks_reordered"}

\* the endpoint a noted request went to
Endpoint(e) == e.req.url[Len(e.req.url)]
\* the requests of the last handler but for the ping of the library dialog
PlaylistRequests == SelectSeq(ui.net, LAMBDA e : Endpoint(e) # "rest/ping.view")

\* C14 as claimed: a mutation handler run on a playlist whose owner is not the
\* client's username sends no request at all.
C14_NonOwnerNoRequest ==
    (ui.handler \in MutationHandlers /\ ui.before.idx > 0
       /\ ui.before.pl.owner # ui.c.username) => ui.net = << >>

\* C14 amended: a mutation handler run on a playlist whose owner differs from
\* the client's username, letter case aside, sends no update, delete or create
\* request; the one request that may follow is the get_playlist_tracks by which
\* the reorder handler loads the track list again.
C14_NonOwnerNoMutation ==
    (ui.handler \in MutationHandlers /\ ui.before.idx > 0
       /\ Lower(ui.before.pl.owner) # Lower(ui.c.username)) =>
        /\ \A i \in 1..Len(ui.net) :
              /\ Endpoint(ui.net[i]) = "rest/getPlaylist.view"
              /\ PlaylistIdOf(ui.net[i].req) = ui.before.pl.id
        /\ Len(ui.net) <= 1
        /\ ui.net # << >> => ui.handler = "_on_tracks_reordered"

C14_Witness ==
    /\ ui.handler = "_on_tracks_reordered" /\ ui.before.pl.owner = <<"bob">>
    /\ ui.before.tracks = << <<"s4">>, <<"s5">> >>
    /\ Len(ui.net) = 1 /\ Endpoint(ui.net[1]) = "rest/getPlaylist.view"

\* C15: no request of the browser names a playlist id that the server deleted
\* before, whatever became of the create that followed the delete.
C15_DeletedIdNeverSent ==
    \A i \in 1..Len(ui.net) : ~ui.net[i].stale

DeletedNotRecreated ==
    /\ ui.handler \in Recreating /\ Len(PlaylistRequests) >= 2
    /\ Endpoint(PlaylistRequests[1]) = "rest/deletePlaylist.view" /\ PlaylistRequests[1].ok
    /\ Endpoint(PlaylistRequests[2]) = "rest/createPlaylist.view" /\ ~PlaylistRequests[2].ok

\* C21: when the delete of a delete-then-recreate succeeds and the create
\* fails, the handler sends nothing after the failed create (no retry, no
\* compensation): the server holds no playlist of the deleted id and the
\* dialog's entry for the row still has that id.
C21_NoCompensation ==
    DeletedNotRecreated =>
        /\ Len(PlaylistRequests) = 2
        /\ ~HasPlaylist(store, ui.before.pl.id)
        /\ ui.playlists[ui.before.idx].id = ui.before.pl.id

C21_Witness ==
    /\ DeletedNotRecreated /\ ui.handler = "_remove_selected_track"
    /\ ui.before.pl.id = <<"pl", "1">> /\ ~HasPlaylist(store, <<"pl", "1">>)
    /\ ui.playlists[1].id = <<"pl", "1">> /\ Len(store.pls) = 2

----------------------------------------------------------------------------
(* Claims about two runs of iter_all_songs_stream, under SpecTwoRuns *)

\* the step is a call of get_album_list2 by the pass-1 loop
PageCalled == gen.pc = "pass1" /\ gen'.asked # gen.asked
\* the step is a call of get_album by the album loop
AlbumCalled == gen.pc = "album" /\ gen'.pc \in {"song", "raised"} /\ gen'.ai = gen.ai

\* C28: a call of get_album_list2 or get_album that fails leaves the cache as it
\* was; and the next run asks the server again for the page whose call failed
\* and for every album whose call failed.
C28_FailureNotCached ==
    [][/\ (PageCalled /\ gen'.pc = "raised") => global_cache' = global_cache
       /\ (AlbumCalled /\ gen'.failed # gen.failed) => global_cache' = global_cache
       /\ (PageCalled /\ gen.offset = gen.prev.failed_offset) => gen'.requests = gen.requests + 1
       /\ (AlbumCalled /\ gen.all_albums[gen.ai].id \in gen.prev.failed_ids) =>
             gen'.requests = gen.requests + 1]_vars

C28_Witness ==
    /\ gen.prev.ran /\ gen.prev.failed_ids = { <<"a2">> } /\ gen.pc = "done" /\ gen.failed = {}
    /\ gen.requests = 1 /\ Len(gen.all_albums) = 4
    /\ Len(Yielded(gen.trace)) = Len(gen.prev.yielded) + 5

\* the run before this one ended by itself, uncancelled and with no album
\* failed, and this one has the same page size
AfterCleanRun ==
    /\ gen.prev.ran /\ gen.prev.pc = "done" /\ ~gen.prev.cancelled /\ gen.prev.failed_ids = {}
    /\ gen.c.enable_cache /\ gen.page_size = gen.prev.page_size
SameAsBefore ==
    /\ gen.requests = 0
    /\ gen.pc = "done" => (Yielded(gen.trace) = gen.prev.yielded /\ gen.total_songs = gen.prev.total)

\* C30 as claimed: a run after a clean run with the same page size sends no
\* request and yields the same songs in the same order with the same total.
C30_SecondRunFromCache ==
    AfterCleanRun => SameAsBefore /\ gen.pc # "raised"

\* C30 amended: so it is when the second run has the same max_pages as well.
C30_SecondRunSameArgs ==
    (AfterCleanRun /\ gen.max_pages = gen.prev.max_pages) => SameAsBefore /\ gen.pc # "raised"

C30_Witness ==
    /\ AfterCleanRun /\ gen.max_pages = gen.prev.max_pages /\ gen.pc = "done"
    /\ gen.requests = 0 /\ Len(Yielded(gen.trace)) = 10 /\ gen.prev.total = 10
    /\ Len(gen.asked) = 3

====
